---------------------------- MODULE Spec2Model ----------------------------
(***************************************************************************)
(* Model of unified-document-analysis: the FileRouter (suffix -> framework *)
(* classification) and the UnifiedAnalyzer (lazy activation cache, error   *)
(* translation).  File paths and extensions are Python strings and are     *)
(* modelled as TLA+ strings; importlib.import_module and the back-end      *)
(* operations are the environment.                                         *)
(***************************************************************************)
EXTENDS Integers, Sequences, FiniteSets, TLC

\* ------------------------------------------------------------------------
\* Bounds of the model
\* ------------------------------------------------------------------------
\* calls made on the analyzer in one behaviour by a single caller
MaxCalls == 3
\* calls made on the analyzer in one behaviour by overlapping callers
MaxConcCalls == 2
\* times the set of installed framework packages changes in one behaviour
MaxEnvChanges == 2
\* distinct module objects importlib.import_module can return
MaxHandles == 2

\* the callers of the one analyzer; a single-caller program is MainThread
Threads == {"main", "worker"}
MainThread == "main"
Handles == 1..MaxHandles

\* file paths and hints the callers pass: an xml file, a docling file in
\* upper case, a file of unsupported type; no hint, a valid and an invalid hint
Files == {"a.xml", "R.PDF", "x.qqq"}
Hints == {"None", "xml", "bogus"}

\* keyword options the callers pass on to the back-end operation: none, some
NoOptions == "{}"
Options == {NoOptions, "{'mode': 'fast'}"}

\* the options that go with a hint: the callers that pass options pass no
\* hint (the hint is used by detect_framework only, the options by the
\* back-end operation only)
OptionsWith(hint) == IF hint = "None" THEN Options ELSE {NoOptions}
\* exception types a back-end operation raises
BackendExceptions == {"ImportError", "RuntimeError"}

\* ------------------------------------------------------------------------
\* router.py : static routing tables
\* ------------------------------------------------------------------------
XML_EXTENSIONS == {".xml"}

DOCLING_EXTENSIONS ==
    {".pdf", ".docx", ".pptx", ".xlsx",
     ".png", ".jpg", ".jpeg", ".tiff", ".bmp"}

DATA_EXTENSIONS ==
    {".csv", ".parquet", ".db", ".sqlite", ".sqlite3",
     ".feather", ".hdf5", ".h5"}

DOCUMENT_EXTENSIONS ==
    {".py", ".js", ".ts", ".jsx", ".tsx", ".java", ".c", ".cpp", ".h", ".hpp",
     ".cs", ".go", ".rs", ".rb", ".php", ".swift", ".kt", ".scala", ".r",
     ".m", ".mm", ".sh", ".bash", ".zsh", ".fish", ".ps1",
     ".html", ".htm", ".css", ".scss", ".sass", ".less",
     ".vue", ".svelte",
     ".json", ".yaml", ".yml", ".toml", ".ini", ".cfg", ".conf",
     ".md", ".markdown", ".rst", ".txt", ".tex", ".adoc",
     ".sql", ".graphql", ".proto", ".thrift",
     ".dockerfile", ".containerfile",
     ".makefile", ".cmake",
     ".gitignore", ".dockerignore"}

\* dict: suffix -> ordered list of frameworks, first one is the default
AMBIGUOUS_EXTENSIONS ==
    [e \in {".json", ".yaml", ".yml"} |->
        IF e = ".json" THEN <<"document", "data">> ELSE <<"document", "xml">>]

\* the four framework names (valid_hints, and the list probed by
\* get_available_frameworks, in that order)
frameworks == <<"xml", "docling", "document", "data">>
valid_hints == {"xml", "docling", "document", "data"}

\* Python None
None == "None"

\* ------------------------------------------------------------------------
\* str.lower() and pathlib.PurePath.suffix
\* ------------------------------------------------------------------------
UpperToLower ==
    [c \in {"A","B","C","D","E","F","G","H","I","J","K","L","M",
            "N","O","P","Q","R","S","T","U","V","W","X","Y","Z"} |->
        CASE c = "A" -> "a" [] c = "B" -> "b" [] c = "C" -> "c" [] c = "D" -> "d"
          [] c = "E" -> "e" [] c = "F" -> "f" [] c = "G" -> "g" [] c = "H" -> "h"
          [] c = "I" -> "i" [] c = "J" -> "j" [] c = "K" -> "k" [] c = "L" -> "l"
          [] c = "M" -> "m" [] c = "N" -> "n" [] c = "O" -> "o" [] c = "P" -> "p"
          [] c = "Q" -> "q" [] c = "R" -> "r" [] c = "S" -> "s" [] c = "T" -> "t"
          [] c = "U" -> "u" [] c = "V" -> "v" [] c = "W" -> "w" [] c = "X" -> "x"
          [] c = "Y" -> "y" [] c = "Z" -> "z"]

RECURSIVE lower(_)
lower(s) ==
    IF s = "" THEN ""
    ELSE LET c == SubSeq(s, 1, 1)
         IN  (IF c \in DOMAIN UpperToLower THEN UpperToLower[c] ELSE c)
                 \o lower(SubSeq(s, 2, Len(s)))

\* index of the last occurrence of ch in s[1..i], 0 when there is none
RECURSIVE rfind(_, _, _)
rfind(s, ch, i) ==
    IF i = 0 THEN 0
    ELSE IF SubSeq(s, i, i) = ch THEN i ELSE rfind(s, ch, i - 1)

\* PurePath.name: the final path component
PathName(file_path) ==
    LET k == rfind(file_path, "/", Len(file_path))
    IN  SubSeq(file_path, k + 1, Len(file_path))

\* PurePath.suffix: the last dot-suffix of the name, "" when the only dot
\* is the first or the last character of the name
PathSuffix(file_path) ==
    LET name == PathName(file_path)
        i    == rfind(name, ".", Len(name))
    IN  IF 1 < i /\ i < Len(name) THEN SubSeq(name, i, Len(name)) ELSE ""

\* variant: the suffix is used as it is written
Extension_as_written(file_path) == PathSuffix(file_path)

\* extension = Path(file_path).suffix.lower()
Extension(file_path) == lower(PathSuffix(file_path))

\* ------------------------------------------------------------------------
\* exceptions.py
\* ------------------------------------------------------------------------
\* class hierarchy: which exception types derive from UnifiedAnalysisError
UnifiedAnalysisErrorTypes ==
    {"FrameworkNotInstalledError", "UnsupportedFileTypeError",
     "AnalysisError", "ChunkingError"}

\* pip extra named in the FrameworkNotInstalledError message
extra_mapping(framework_name) ==
    CASE framework_name = "xml"      -> "xml"
      [] framework_name = "docling"  -> "docling"
      [] framework_name = "document" -> "document"
      [] framework_name = "data"     -> "data"
      [] OTHER                       -> framework_name

FrameworkNotInstalledError(framework_name, file_path) ==
    [kind |-> "raise", type |-> "FrameworkNotInstalledError",
     framework_name |-> framework_name, file_path |-> file_path,
     install |-> "unified-document-analysis[" \o extra_mapping(framework_name) \o "]"]

\* variant: the two fields of the error are stored the other way round
UnsupportedFileTypeError_swapped(file_path, extension) ==
    [kind |-> "raise", type |-> "UnsupportedFileTypeError",
     file_path |-> extension, extension |-> file_path,
     listed |-> {".xml", ".pdf", ".docx", ".pptx", ".xlsx", ".png", ".jpg",
                 ".jpeg", ".tiff", ".csv", ".parquet", ".db", ".sqlite",
                 ".py", ".js", ".ts", ".md", ".txt", ".yaml", ".json"}]

UnsupportedFileTypeError(file_path, extension) ==
    [kind |-> "raise", type |-> "UnsupportedFileTypeError",
     file_path |-> file_path, extension |-> extension,
     listed |-> {".xml", ".pdf", ".docx", ".pptx", ".xlsx", ".png", ".jpg",
                 ".jpeg", ".tiff", ".csv", ".parquet", ".db", ".sqlite",
                 ".py", ".js", ".ts", ".md", ".txt", ".yaml", ".json"}]

AnalysisError(file_path, framework_name, original_error) ==
    [kind |-> "raise", type |-> "AnalysisError", file_path |-> file_path,
     framework_name |-> framework_name, original_error |-> original_error]

ChunkingError(file_path, framework_name, original_error) ==
    [kind |-> "raise", type |-> "ChunkingError", file_path |-> file_path,
     framework_name |-> framework_name, original_error |-> original_error]

\* an exception that is not of this package (ValueError, ImportError, ...)
Foreign(type, about) == [kind |-> "raise", type |-> type, about |-> about]

Return(value) == [kind |-> "return", value |-> value]

\* ------------------------------------------------------------------------
\* router.py : FileRouter
\* ------------------------------------------------------------------------
\* `if hint:` - None and the empty string are falsy
Truthy(hint) == hint # None /\ hint # ""

\* variant: a suffix that a table names is routed by the table, and the
\* hint is used for the other files only
detect_framework_suffix_first(file_path, hint) ==
    LET extension == Extension(file_path)
    IN  IF extension \in XML_EXTENSIONS THEN Return("xml")
        ELSE IF extension \in DOCLING_EXTENSIONS THEN Return("docling")
        ELSE IF extension \in DATA_EXTENSIONS THEN Return("data")
        ELSE IF extension \in DOCUMENT_EXTENSIONS THEN Return("document")
        ELSE IF Truthy(hint)
             THEN IF hint \notin valid_hints
                  THEN Foreign("ValueError", hint)
                  ELSE Return(hint)
        ELSE IF extension = "" THEN Return("document")
        ELSE UnsupportedFileTypeError(file_path, extension)

\* variant: a file without a suffix is refused like an unknown suffix
detect_framework_noext_error(file_path, hint) ==
    IF Truthy(hint)
    THEN IF hint \notin valid_hints
         THEN Foreign("ValueError", hint)
         ELSE Return(hint)
    ELSE LET extension == Extension(file_path)
         IN  IF extension \in XML_EXTENSIONS THEN Return("xml")
             ELSE IF extension \in DOCLING_EXTENSIONS THEN Return("docling")
             ELSE IF extension \in DATA_EXTENSIONS THEN Return("data")
             ELSE IF extension \in DOCUMENT_EXTENSIONS THEN Return("document")
             ELSE UnsupportedFileTypeError(file_path, extension)

detect_framework(file_path, hint) ==
    IF Truthy(hint)
    THEN IF hint \notin valid_hints
         THEN Foreign("ValueError", hint)
         ELSE Return(hint)
    ELSE LET extension == Extension(file_path)
         IN  IF extension = "" THEN Return("document")
             ELSE IF extension \in XML_EXTENSIONS THEN Return("xml")
             ELSE IF extension \in DOCLING_EXTENSIONS THEN Return("docling")
             ELSE IF extension \in DATA_EXTENSIONS THEN Return("data")
             ELSE IF extension \in DOCUMENT_EXTENSIONS THEN Return("document")
             ELSE IF extension \in DOMAIN AMBIGUOUS_EXTENSIONS
                  THEN Return(AMBIGUOUS_EXTENSIONS[extension][1])
             ELSE UnsupportedFileTypeError(file_path, extension)

\* variant: the data table is not consulted
get_confidence_no_data(file_path, framework) ==
    LET extension == Extension(file_path)
    IN  IF framework = "xml" /\ extension \in XML_EXTENSIONS THEN 10
        ELSE IF framework = "docling" /\ extension \in DOCLING_EXTENSIONS THEN 10
        ELSE IF framework = "document" /\ extension \in DOCUMENT_EXTENSIONS
             THEN (IF extension \in DOMAIN AMBIGUOUS_EXTENSIONS THEN 7 ELSE 10)
        ELSE IF extension = "" THEN 5
        ELSE 3

\* confidence scores are tenths: 10 = 1.0, 7 = 0.7, 5 = 0.5, 3 = 0.3
get_confidence(file_path, framework) ==
    LET extension == Extension(file_path)
    IN  IF framework = "xml" /\ extension \in XML_EXTENSIONS THEN 10
        ELSE IF framework = "docling" /\ extension \in DOCLING_EXTENSIONS THEN 10
        ELSE IF framework = "data" /\ extension \in DATA_EXTENSIONS THEN 10
        ELSE IF framework = "document" /\ extension \in DOCUMENT_EXTENSIONS
             THEN (IF extension \in DOMAIN AMBIGUOUS_EXTENSIONS THEN 7 ELSE 10)
        ELSE IF extension = "" THEN 5
        ELSE 3

get_framework_module_path(framework) ==
    CASE framework = "xml"      -> "xml_analysis_framework"
      [] framework = "docling"  -> "docling_analysis_framework"
      [] framework = "document" -> "document_analysis_framework"
      [] framework = "data"     -> "data_analysis_framework"
      [] OTHER                  -> framework

\* variant: the list leaves out the framework that is used by default
is_ambiguous_others(file_path) ==
    LET extension == Extension(file_path)
    IN  IF extension \in DOMAIN AMBIGUOUS_EXTENSIONS
        THEN <<TRUE, Tail(AMBIGUOUS_EXTENSIONS[extension])>>
        ELSE <<FALSE, <<>> >>

is_ambiguous(file_path) ==
    LET extension == Extension(file_path)
    IN  IF extension \in DOMAIN AMBIGUOUS_EXTENSIONS
        THEN <<TRUE, AMBIGUOUS_EXTENSIONS[extension]>>
        ELSE <<FALSE, <<>> >>

\* variant: the suffixes of the ambiguous table are left out of the index
get_supported_extensions_unambiguous(framework) ==
    LET all_extensions ==
            [xml      |-> XML_EXTENSIONS,
             docling  |-> DOCLING_EXTENSIONS,
             document |-> DOCUMENT_EXTENSIONS \ DOMAIN AMBIGUOUS_EXTENSIONS,
             data     |-> DATA_EXTENSIONS]
    IN  IF Truthy(framework)
        THEN [fw \in {framework} |->
                 IF fw \in DOMAIN all_extensions THEN all_extensions[fw] ELSE {}]
        ELSE all_extensions

\* a dict from framework name to set of extensions; `if framework:` - None
\* and the empty string give the whole dict, an unknown name an empty set
get_supported_extensions(framework) ==
    LET all_extensions ==
            [xml      |-> XML_EXTENSIONS,
             docling  |-> DOCLING_EXTENSIONS,
             document |-> DOCUMENT_EXTENSIONS,
             data     |-> DATA_EXTENSIONS]
    IN  IF Truthy(framework)
        THEN [fw \in {framework} |->
                 IF fw \in DOMAIN all_extensions THEN all_extensions[fw] ELSE {}]
        ELSE all_extensions


\* ------------------------------------------------------------------------
\* orchestrator.py : UnifiedAnalyzer
\* ------------------------------------------------------------------------
VARIABLES
    loaded_frameworks,  \* self._loaded_frameworks: dict framework name -> module
    modules,            \* environment: what import_module does for each framework
    th,                 \* per caller: the call it is in and its position
    concurrent,         \* environment: do callers overlap their calls
    probeLog,           \* history: modules returned to _load_framework, per name
    failures,           \* history: number of calls that ended in an exception
    failedLoads,        \* history: names for which FrameworkNotInstalledError was raised
    calls,              \* history: number of calls started
    envChanges,         \* history: number of environment changes
    _analyzer           \* __init__.py: the module's global analyzer instance

vars == <<loaded_frameworks, modules, th, concurrent, probeLog, failures,
          failedLoads, calls, envChanges, _analyzer>>

\* `_analyzer = None`: the module has made no UnifiedAnalyzer; the instances
\* it makes are numbered 1, 2, ... in the order of their construction
NoAnalyzer == 0

\* a local variable that holds no module
NoModule == "NoModule"

\* import_module(module_path): returns a module, raises ImportError
\* (package missing), or raises whatever the package's import-time code
\* raises (package present but broken)
ModuleStates == {"ok", "missing", "broken"}

\* the empty dict, and dict assignment d[key] = value
EmptyDict == [k \in {} |-> NoModule]

DictSet(d, key, value) ==
    [k \in DOMAIN d \cup {key} |-> IF k = key THEN value ELSE d[k]]

Idle == [pc |-> "idle"]

\* a local variable that holds no result and no exception yet
Nothing == [kind |-> "none"]

\* the locals of a call that has just been entered; probe, probes, invoked
\* and backend record what the call has done so far
NewCall(op, file_path, hint) ==
    [pc |-> "done", op |-> op, file_path |-> file_path, hint |-> hint,
     framework_name |-> None, framework |-> NoModule, outcome |-> Nothing,
     modAtCheck |-> "none", probe |-> "none", probes |-> 0,
     invoked |-> 0, backend |-> Nothing, options |-> NoOptions]

\* what a back-end operation returns: it is computed by the module that was
\* called, from the operation, the file path and the options it was given
BackendResult(handle, op, file_path, options) ==
    [by |-> handle, op |-> op, file_path |-> file_path, options |-> options]

\* UnifiedAnalyzer.__init__
Init ==
    /\ loaded_frameworks = EmptyDict
    /\ modules = [f \in valid_hints |-> "missing"]
    /\ th = [t \in Threads |-> Idle]
    /\ concurrent = FALSE
    /\ probeLog = [f \in valid_hints |-> <<>>]
    /\ failures = 0
    /\ failedLoads = {}
    /\ calls = 0
    /\ envChanges = 0
    /\ _analyzer = NoAnalyzer

\* a caller may enter a call when it is in none; without concurrency the
\* only caller is the main thread
MayCall(t) ==
    /\ th[t].pc = "idle"
    /\ IF concurrent THEN calls < MaxConcCalls
                     ELSE t = MainThread /\ calls < MaxCalls

\* Enter, but a classification error is replaced by the fallback framework
Enter_fallback(t, op, file_path, hint, options) ==
    LET d == detect_framework(file_path, hint)
    IN  /\ MayCall(t)
        /\ calls' = calls + 1
        /\ th' = [th EXCEPT ![t] =
                    [NewCall(op, file_path, hint) EXCEPT
                        !.options = options,
                        !.pc = "load",
                        !.framework_name =
                            IF d.kind = "raise" THEN "document" ELSE d.value]]
        /\ UNCHANGED <<loaded_frameworks, modules, concurrent, probeLog,
                       failures, failedLoads, envChanges>>

\* first lines of analyze and of chunk: detect_framework (and, in analyze,
\* get_confidence, whose value is not used); an exception of
\* detect_framework propagates
Enter(t, op, file_path, hint, options) ==
    LET d == detect_framework(file_path, hint)
    IN  /\ MayCall(t)
        /\ calls' = calls + 1
        /\ th' = [th EXCEPT ![t] =
                    IF d.kind = "raise"
                    THEN [NewCall(op, file_path, hint) EXCEPT
                              !.options = options, !.outcome = d]
                    ELSE [NewCall(op, file_path, hint) EXCEPT
                              !.options = options,
                              !.pc = "load", !.framework_name = d.value]]
        /\ UNCHANGED <<loaded_frameworks, modules, concurrent, probeLog,
                       failures, failedLoads, envChanges>>

analyze(t) ==
    \E file_path \in Files, hint \in Hints :
        \E options \in OptionsWith(hint) :
            Enter(t, "analyze", file_path, hint, options)

chunk(t) ==
    \E file_path \in Files, hint \in Hints :
        \E options \in OptionsWith(hint) :
            Enter(t, "chunk", file_path, hint, options)

\* load_framework_check without the cache lookup
load_framework_check_nocache(t) ==
    LET name == th[t].framework_name
    IN  /\ th[t].pc = "load"
        /\ th' = [th EXCEPT ![t] =
                    [@ EXCEPT !.pc = "import", !.modAtCheck = modules[name]]]
        /\ UNCHANGED <<loaded_frameworks, modules, concurrent, _analyzer, probeLog,
                       failures, failedLoads, calls, envChanges>>

\* load_framework_check that remembers a failed import and fails at once
load_framework_check_remember(t) ==
    LET name == th[t].framework_name
    IN  /\ th[t].pc = "load"
        /\ th' = [th EXCEPT ![t] =
                    IF name \in DOMAIN loaded_frameworks
                    THEN [@ EXCEPT !.pc = "invoke",
                                   !.framework = loaded_frameworks[name],
                                   !.probe = "hit",
                                   !.modAtCheck = modules[name]]
                    ELSE IF name \in failedLoads
                    THEN [@ EXCEPT !.pc = "done",
                                   !.modAtCheck = modules[name],
                                   !.outcome = FrameworkNotInstalledError(
                                                   name, th[t].file_path)]
                    ELSE [@ EXCEPT !.pc = "import",
                                   !.modAtCheck = modules[name]]]
        /\ UNCHANGED <<loaded_frameworks, modules, concurrent, _analyzer, probeLog,
                       failures, failedLoads, calls, envChanges>>

\* _load_framework, lines 250-252: the cache lookup
load_framework_check(t) ==
    LET name == th[t].framework_name
    IN  /\ th[t].pc = "load"
        /\ th' = [th EXCEPT ![t] =
                    IF name \in DOMAIN loaded_frameworks
                    THEN [@ EXCEPT !.pc = "invoke",
                                   !.framework = loaded_frameworks[name],
                                   !.probe = "hit",
                                   !.modAtCheck = modules[name]]
                    ELSE [@ EXCEPT !.pc = "import",
                                   !.modAtCheck = modules[name]]]
        /\ UNCHANGED <<loaded_frameworks, modules, concurrent, _analyzer, probeLog,
                       failures, failedLoads, calls, envChanges>>

\* load_framework_import that stores an entry also when the import fails
load_framework_import_cachefail(t) ==
    LET name == th[t].framework_name
    IN  /\ th[t].pc = "import"
        /\ IF modules[name] = "ok"
           THEN \E module \in Handles :
                   /\ loaded_frameworks' =
                          DictSet(loaded_frameworks, name, module)
                   /\ probeLog' = [probeLog EXCEPT ![name] = Append(@, module)]
                   /\ th' = [th EXCEPT ![t] =
                               [@ EXCEPT !.pc = "invoke",
                                         !.framework = module,
                                         !.probe = "ok",
                                         !.probes = @ + 1]]
                   /\ UNCHANGED failedLoads
           ELSE /\ loaded_frameworks' =
                       DictSet(loaded_frameworks, name, NoModule)
                /\ th' = [th EXCEPT ![t] =
                            [@ EXCEPT !.pc = "done",
                                      !.probe = modules[name],
                                      !.probes = @ + 1,
                                      !.outcome = FrameworkNotInstalledError(
                                                      name, th[t].file_path)]]
                /\ failedLoads' = failedLoads \cup {name}
                /\ UNCHANGED probeLog
        /\ UNCHANGED <<modules, concurrent, _analyzer, failures, calls, envChanges>>

\* _load_framework, lines 254-263: import the module and store it, or raise
load_framework_import(t) ==
    LET name == th[t].framework_name
    IN  /\ th[t].pc = "import"
        /\ CASE modules[name] = "ok" ->
                  \E module \in Handles :
                     /\ loaded_frameworks' =
                            DictSet(loaded_frameworks, name, module)
                     /\ probeLog' = [probeLog EXCEPT ![name] = Append(@, module)]
                     /\ th' = [th EXCEPT ![t] =
                                 [@ EXCEPT !.pc = "invoke",
                                           !.framework = module,
                                           !.probe = "ok",
                                           !.probes = @ + 1]]
                     /\ UNCHANGED failedLoads
             [] modules[name] = "missing" ->
                  /\ th' = [th EXCEPT ![t] =
                              [@ EXCEPT !.pc = "done",
                                        !.probe = "missing",
                                        !.probes = @ + 1,
                                        !.outcome = FrameworkNotInstalledError(
                                                        name, th[t].file_path)]]
                  /\ failedLoads' = failedLoads \cup {name}
                  /\ UNCHANGED <<loaded_frameworks, probeLog>>
             [] modules[name] = "broken" ->
                  \* not an ImportError: the except clause does not apply
                  /\ th' = [th EXCEPT ![t] =
                              [@ EXCEPT !.pc = "done",
                                        !.probe = "broken",
                                        !.probes = @ + 1,
                                        !.outcome = Foreign("RuntimeError",
                                            get_framework_module_path(name))]]
                  /\ UNCHANGED <<loaded_frameworks, probeLog, failedLoads>>
        /\ UNCHANGED <<modules, concurrent, _analyzer, failures, calls, envChanges>>

\* WrapError that raises AnalysisError for both operations
WrapError_analysis_only(op, file_path, framework_name, original_error) ==
    AnalysisError(file_path, framework_name, original_error)

\* the exception that wraps a failure of the back-end operation op
WrapError(op, file_path, framework_name, original_error) ==
    IF op = "analyze"
    THEN AnalysisError(file_path, framework_name, original_error)
    ELSE ChunkingError(file_path, framework_name, original_error)

\* invoke that calls the operation without the keyword options
invoke_no_options(t) ==
    LET c == th[t]
    IN  /\ c.pc = "invoke"
        /\ \E b \in {Return(BackendResult(c.framework, c.op, c.file_path,
                                           NoOptions))}
                      \cup {Foreign(e, "backend") : e \in BackendExceptions} :
              th' = [th EXCEPT ![t] =
                       [@ EXCEPT !.pc = "done", !.invoked = @ + 1,
                                 !.backend = b,
                                 !.outcome =
                                     IF b.kind = "return" THEN b
                                     ELSE WrapError(c.op, c.file_path,
                                                    c.framework_name, b)]]
        /\ UNCHANGED <<loaded_frameworks, modules, concurrent, _analyzer, probeLog,
                       failures, failedLoads, calls, envChanges>>

\* invoke that drops the module from the cache when the operation raises
invoke_evict(t) ==
    LET c == th[t]
    IN  /\ c.pc = "invoke"
        /\ \E b \in {Return(BackendResult(c.framework, c.op, c.file_path,
                                           c.options))}
                      \cup {Foreign(e, "backend") : e \in BackendExceptions} :
              /\ th' = [th EXCEPT ![t] =
                          [@ EXCEPT !.pc = "done", !.invoked = @ + 1,
                                    !.backend = b,
                                    !.outcome =
                                        IF b.kind = "return" THEN b
                                        ELSE WrapError(c.op, c.file_path,
                                                       c.framework_name, b)]]
              /\ loaded_frameworks' =
                     IF b.kind = "return" THEN loaded_frameworks
                     ELSE [k \in DOMAIN loaded_frameworks \ {c.framework_name}
                               |-> loaded_frameworks[k]]
        /\ UNCHANGED <<modules, concurrent, _analyzer, probeLog,
                       failures, failedLoads, calls, envChanges>>

\* invoke that calls the operation a second time when the first call raises
invoke_retry(t) ==
    LET c == th[t]
    IN  /\ c.pc = "invoke"
        /\ \E b \in {Return(BackendResult(c.framework, c.op, c.file_path,
                                           c.options))}
                      \cup {Foreign(e, "backend") : e \in BackendExceptions} :
              th' = [th EXCEPT ![t] =
                       IF b.kind = "raise" /\ c.invoked = 0
                       THEN [@ EXCEPT !.invoked = @ + 1, !.backend = b]
                       ELSE [@ EXCEPT !.pc = "done", !.invoked = @ + 1,
                                      !.backend = b,
                                      !.outcome =
                                          IF b.kind = "return" THEN b
                                          ELSE WrapError(c.op, c.file_path,
                                                         c.framework_name, b)]]
        /\ UNCHANGED <<loaded_frameworks, modules, concurrent, _analyzer, probeLog,
                       failures, failedLoads, calls, envChanges>>

\* analyze lines 68-73, chunk lines 115-125: call the back-end operation
\* inside try / except Exception
invoke(t) ==
    LET c == th[t]
    IN  /\ c.pc = "invoke"
        /\ IF c.framework \in Handles
           THEN \E b \in {Return(BackendResult(c.framework, c.op, c.file_path,
                                           c.options))}
                         \cup {Foreign(e, "backend") : e \in BackendExceptions} :
                   th' = [th EXCEPT ![t] =
                            [@ EXCEPT !.pc = "done", !.invoked = @ + 1,
                                      !.backend = b,
                                      !.outcome =
                                          IF b.kind = "return" THEN b
                                          ELSE WrapError(c.op, c.file_path,
                                                         c.framework_name, b)]]
           ELSE \* the attribute lookup on a non-module fails inside the try
                th' = [th EXCEPT ![t] =
                         [@ EXCEPT !.pc = "done",
                                   !.outcome = WrapError(c.op, c.file_path,
                                       c.framework_name,
                                       Foreign("AttributeError", "handle"))]]
        /\ UNCHANGED <<loaded_frameworks, modules, concurrent, _analyzer, probeLog,
                       failures, failedLoads, calls, envChanges>>

\* get_available_frameworks: probe the four modules in order; an exception
\* other than ImportError leaves the loop
RECURSIVE available_from(_, _)
available_from(i, available) ==
    IF i > Len(frameworks) THEN Return(available)
    ELSE LET name == frameworks[i]
         IN  CASE modules[name] = "ok" ->
                    available_from(i + 1, Append(available, name))
               [] modules[name] = "missing" ->
                    available_from(i + 1, available)
               [] modules[name] = "broken" ->
                    Foreign("RuntimeError", get_framework_module_path(name))

\* get_available_frameworks that reports a cached framework without
\* importing it
get_available_frameworks_cached(t) ==
    /\ MayCall(t)
    /\ calls' = calls + 1
    /\ th' = [th EXCEPT ![t] =
                [NewCall("get_available_frameworks", None, None) EXCEPT
                    !.outcome = Return(SelectSeq(frameworks,
                        LAMBDA name : \/ name \in DOMAIN loaded_frameworks
                                      \/ modules[name] = "ok"))]]
    /\ UNCHANGED <<loaded_frameworks, modules, concurrent, probeLog,
                   failures, failedLoads, envChanges>>

get_available_frameworks(t) ==
    /\ MayCall(t)
    /\ calls' = calls + 1
    /\ th' = [th EXCEPT ![t] =
                [NewCall("get_available_frameworks", None, None) EXCEPT
                    !.outcome = available_from(1, <<>>)]]
    /\ UNCHANGED <<loaded_frameworks, modules, concurrent, probeLog,
                   failures, failedLoads, envChanges>>

\* routing_info that takes "installed" from the cache when the name is cached
routing_info_cached(file_path, hint) ==
    LET d == detect_framework(file_path, hint)
    IN  IF d.kind = "raise" THEN d
        ELSE Return([framework    |-> d.value,
                     confidence   |-> get_confidence(file_path, d.value),
                     is_ambiguous |-> is_ambiguous(file_path)[1],
                     alternatives |-> is_ambiguous(file_path)[2],
                     installed    |-> \/ d.value \in DOMAIN loaded_frameworks
                                      \/ modules[d.value] = "ok"])

\* variant: with a hint the choice is made, and no ambiguity is reported
routing_info_resolved(file_path, hint) ==
    LET d == detect_framework(file_path, hint)
    IN  IF d.kind = "raise" THEN d
        ELSE IF modules[d.value] = "broken"
             THEN Foreign("RuntimeError", get_framework_module_path(d.value))
             ELSE Return([framework    |-> d.value,
                          confidence   |-> get_confidence(file_path, d.value),
                          is_ambiguous |-> IF Truthy(hint) THEN FALSE
                                           ELSE is_ambiguous(file_path)[1],
                          alternatives |-> IF Truthy(hint) THEN <<>>
                                           ELSE is_ambiguous(file_path)[2],
                          installed    |-> modules[d.value] = "ok"])

\* detect_framework_for_file: detect, confidence, ambiguity and one probe
routing_info(file_path, hint) ==
    LET d == detect_framework(file_path, hint)
    IN  IF d.kind = "raise" THEN d
        ELSE IF modules[d.value] = "broken"
             THEN Foreign("RuntimeError", get_framework_module_path(d.value))
             ELSE Return([framework    |-> d.value,
                          confidence   |-> get_confidence(file_path, d.value),
                          is_ambiguous |-> is_ambiguous(file_path)[1],
                          alternatives |-> is_ambiguous(file_path)[2],
                          installed    |-> modules[d.value] = "ok"])

detect_framework_for_file(t) ==
    \E file_path \in Files, hint \in Hints :
        /\ MayCall(t)
        /\ calls' = calls + 1
        /\ th' = [th EXCEPT ![t] =
                    [NewCall("detect_framework_for_file", file_path, hint) EXCEPT
                        !.outcome = routing_info(file_path, hint)]]
        /\ UNCHANGED <<loaded_frameworks, modules, concurrent, probeLog,
                       failures, failedLoads, envChanges>>

\* the call ends: the caller has the return value or the exception
finish(t) ==
    /\ th[t].pc = "done"
    /\ th' = [th EXCEPT ![t] = Idle]
    /\ failures' = IF th[t].outcome.kind = "raise"
                   THEN failures + 1 ELSE failures
    /\ UNCHANGED <<loaded_frameworks, modules, concurrent, _analyzer, probeLog,
                   failedLoads, calls, envChanges>>

\* environment: a framework package is installed, removed or broken
SetModule(name, state) ==
    /\ envChanges < MaxEnvChanges
    /\ modules[name] # state
    /\ modules' = [modules EXCEPT ![name] = state]
    /\ envChanges' = envChanges + 1
    /\ UNCHANGED <<loaded_frameworks, th, concurrent, _analyzer, probeLog, failures,
                   failedLoads, calls>>

Install(name) == SetModule(name, "ok")

Uninstall(name) == SetModule(name, "missing")

Break(name) == SetModule(name, "broken")

Next ==
    \/ \E t \in Threads : analyze(t) /\ UNCHANGED _analyzer
    \/ \E t \in Threads : chunk(t) /\ UNCHANGED _analyzer
    \/ \E t \in Threads : load_framework_check(t)
    \/ \E t \in Threads : load_framework_import(t)
    \/ \E t \in Threads : invoke(t)
    \/ \E t \in Threads : get_available_frameworks(t) /\ UNCHANGED _analyzer
    \/ \E t \in Threads : detect_framework_for_file(t) /\ UNCHANGED _analyzer
    \/ \E t \in Threads : finish(t)
    \/ \E name \in valid_hints : Install(name)
    \/ \E name \in valid_hints : Uninstall(name)
    \/ \E name \in valid_hints : Break(name)

\* the program as written: one caller, one call at a time, on a
\* UnifiedAnalyzer the caller has made
Spec == Init /\ [][Next]_vars

\* two callers whose calls on the one analyzer overlap
ConcInit ==
    /\ loaded_frameworks = EmptyDict
    /\ modules = [f \in valid_hints |-> "missing"]
    /\ th = [t \in Threads |-> Idle]
    /\ concurrent = TRUE
    /\ probeLog = [f \in valid_hints |-> <<>>]
    /\ failures = 0
    /\ failedLoads = {}
    /\ calls = 0
    /\ envChanges = 0
    /\ _analyzer = NoAnalyzer

ConcSpec == ConcInit /\ [][Next]_vars

\* ------------------------------------------------------------------------
\* __init__.py : the module-level functions
\* ------------------------------------------------------------------------
\* variant: every call makes a new UnifiedAnalyzer
get_analyzer_new == _analyzer' = _analyzer + 1

\* _get_analyzer: make the global instance if there is none, and return it
get_analyzer ==
    _analyzer' = IF _analyzer = NoAnalyzer THEN 1 ELSE _analyzer

\* the module-level functions: _get_analyzer(), then the method of the same
\* name on the instance it returns
module_analyze(t) == get_analyzer /\ analyze(t)

module_chunk(t) == get_analyzer /\ chunk(t)

module_get_available_frameworks(t) ==
    get_analyzer /\ get_available_frameworks(t)

module_detect_framework_for_file(t) ==
    get_analyzer /\ detect_framework_for_file(t)

ModuleNext ==
    \/ \E t \in Threads : module_analyze(t)
    \/ \E t \in Threads : module_chunk(t)
    \/ \E t \in Threads : load_framework_check(t)
    \/ \E t \in Threads : load_framework_import(t)
    \/ \E t \in Threads : invoke(t)
    \/ \E t \in Threads : module_get_available_frameworks(t)
    \/ \E t \in Threads : module_detect_framework_for_file(t)
    \/ \E t \in Threads : finish(t)
    \/ \E name \in valid_hints : Install(name)
    \/ \E name \in valid_hints : Uninstall(name)
    \/ \E name \in valid_hints : Break(name)

\* one caller, one call at a time, through the module-level functions;
\* loaded_frameworks is the cache of the instance the global holds, and is
\* empty as long as there is none
ModuleSpec == Init /\ [][ModuleNext]_vars

\* ------------------------------------------------------------------------
\* router.py : FileRouter called on its own
\* ------------------------------------------------------------------------
\* every suffix that a routing table names
AllExtensions ==
    XML_EXTENSIONS \cup DOCLING_EXTENSIONS \cup DATA_EXTENSIONS
        \cup DOCUMENT_EXTENSIONS \cup DOMAIN AMBIGUOUS_EXTENSIONS

\* file paths given to the router: one per suffix of the tables, and names
\* in upper case, with several dots, with a directory, with a leading or a
\* trailing dot, without a dot, and with a suffix of no table
RouterFiles ==
    {"f" \o e : e \in AllExtensions}
        \cup {"R.PDF", "report.final.pdf", "Q.JSON", "conf.d/app.YML",
              "Makefile", ".gitignore", "x.", "dir.d/file",
              "x.qqq", "X.QQQ", "a.tar.gz"}

\* hints given to the router: none, the empty string, the four framework
\* names, and strings that are no framework name
RouterHints == {None, "", "xml", "docling", "document", "data", "bogus", "XML"}

\* framework filters given to get_supported_extensions: none, the four
\* framework names, and a string that is no framework name
RouterFilters == {None, "xml", "docling", "document", "data", "bogus"}

\* a caller about to call the static methods of FileRouter with a file
\* path, a hint and a framework name; the results are filled in as the
\* methods are called
RouterQuery(file_path, hint, framework) ==
    [pc |-> "router", op |-> "router", file_path |-> file_path,
     hint |-> hint, framework_name |-> framework,
     detected |-> Nothing, confidence |-> Nothing, ambiguous |-> Nothing,
     described |-> Nothing, supported |-> Nothing]

RouterInit ==
    /\ loaded_frameworks = EmptyDict
    /\ modules = [f \in valid_hints |-> "missing"]
    /\ \E file_path \in RouterFiles, hint \in RouterHints,
          framework \in valid_hints :
          th = [t \in Threads |->
                   IF t = MainThread
                   THEN RouterQuery(file_path, hint, framework) ELSE Idle]
    /\ concurrent = FALSE
    /\ probeLog = [f \in valid_hints |-> <<>>]
    /\ failures = 0
    /\ failedLoads = {}
    /\ calls = 0
    /\ envChanges = 0
    /\ _analyzer = NoAnalyzer

\* FileRouter.detect_framework(file_path, hint)
router_detect(t) ==
    /\ th[t].pc = "router"
    /\ th[t].detected = Nothing
    /\ th' = [th EXCEPT ![t].detected =
                 detect_framework(th[t].file_path, th[t].hint)]
    /\ UNCHANGED <<loaded_frameworks, modules, concurrent, _analyzer, probeLog,
                   failures, failedLoads, calls, envChanges>>

\* FileRouter.get_confidence(file_path, framework)
router_confidence(t) ==
    /\ th[t].pc = "router"
    /\ th[t].confidence = Nothing
    /\ th' = [th EXCEPT ![t].confidence =
                 Return(get_confidence(th[t].file_path, th[t].framework_name))]
    /\ UNCHANGED <<loaded_frameworks, modules, concurrent, _analyzer, probeLog,
                   failures, failedLoads, calls, envChanges>>

\* FileRouter.is_ambiguous(file_path)
router_is_ambiguous(t) ==
    /\ th[t].pc = "router"
    /\ th[t].ambiguous = Nothing
    /\ th' = [th EXCEPT ![t].ambiguous = Return(is_ambiguous(th[t].file_path))]
    /\ UNCHANGED <<loaded_frameworks, modules, concurrent, _analyzer, probeLog,
                   failures, failedLoads, calls, envChanges>>

\* UnifiedAnalyzer.detect_framework_for_file(file_path, hint) on a new
\* analyzer
router_describe(t) ==
    /\ th[t].pc = "router"
    /\ th[t].described = Nothing
    /\ th' = [th EXCEPT ![t].described =
                 routing_info(th[t].file_path, th[t].hint)]
    /\ UNCHANGED <<loaded_frameworks, modules, concurrent, _analyzer, probeLog,
                   failures, failedLoads, calls, envChanges>>

\* FileRouter.get_supported_extensions(framework)
router_supported_extensions(t) ==
    \E framework \in RouterFilters :
        /\ th[t].pc = "router"
        /\ th[t].supported = Nothing
        /\ th' = [th EXCEPT ![t].supported =
                     [kind |-> "return", framework |-> framework,
                      value |-> get_supported_extensions(framework)]]
        /\ UNCHANGED <<loaded_frameworks, modules, concurrent, _analyzer, probeLog,
                       failures, failedLoads, calls, envChanges>>

RouterNext ==
    \/ \E t \in Threads : router_detect(t)
    \/ \E t \in Threads : router_confidence(t)
    \/ \E t \in Threads : router_is_ambiguous(t)
    \/ \E t \in Threads : router_describe(t)
    \/ \E t \in Threads : router_supported_extensions(t)

\* the router's pure functions applied to each file path, hint and
\* framework name
RouterSpec == RouterInit /\ [][RouterNext]_vars

\* the calls in progress of analyze and chunk
Active == {t \in Threads : th[t].pc # "idle" /\ th[t].op \in {"analyze", "chunk"}}

\* ------------------------------------------------------------------------
\* Properties
\* ------------------------------------------------------------------------
\* the call of t ended in an exception of the given type
Raised(t, type) ==
    /\ th[t].pc = "done"
    /\ th[t].outcome.kind = "raise"
    /\ th[t].outcome.type = type

\* the call of t ended by returning a value
Returned(t) == th[t].pc = "done" /\ th[t].outcome.kind = "return"

\* the call of t has a module to call: from the cache or from its own import
Activated(t) == th[t].probe \in {"hit", "ok"}

\* C1: with a single caller, the import in _load_framework succeeds at most
\* once per framework name over the life of the analyzer; the name is in the
\* cache exactly when that import has happened; a call that finds the name
\* cached imports nothing, the call that imports does so once, and every
\* call that has a module for the name has the one module that import
\* returned.
ProbedOncePerIdentity ==
    /\ \A name \in valid_hints :
          /\ Len(probeLog[name]) <= 1
          /\ name \in DOMAIN loaded_frameworks <=> Len(probeLog[name]) = 1
    /\ \A t \in Active :
          Activated(t) =>
             /\ probeLog[th[t].framework_name] = <<th[t].framework>>
             /\ th[t].probes = IF th[t].probe = "ok" THEN 1 ELSE 0

\* a later call for a name is served from the cache while the module is
\* importable, and returns
C1Witness ==
    \E t \in Active :
        /\ th[t].probe = "hit"
        /\ th[t].modAtCheck = "ok"
        /\ modules[th[t].framework_name] = "ok"
        /\ Returned(t)

\* C2: a call that fails with FrameworkNotInstalledError leaves no cache
\* entry for its framework name, a name whose import has only ever failed is
\* not in the cache, so a call never takes a cache hit for it, and a call
\* whose import succeeds has the imported module, stored in the cache, and
\* does not end in FrameworkNotInstalledError.
FailedActivationNotCached ==
    /\ \A t \in Active :
          Raised(t, "FrameworkNotInstalledError") =>
              th[t].framework_name \notin DOMAIN loaded_frameworks
    /\ \A name \in failedLoads :
          probeLog[name] = <<>> => name \notin DOMAIN loaded_frameworks
    /\ \A t \in Active :
          /\ th[t].probe = "hit" => probeLog[th[t].framework_name] # <<>>
          /\ th[t].probe = "ok" =>
                /\ th[t].framework_name \in DOMAIN loaded_frameworks
                /\ loaded_frameworks[th[t].framework_name] = th[t].framework
                /\ th[t].framework \in Handles
                /\ th[t].pc \in {"invoke", "done"}
                /\ ~Raised(t, "FrameworkNotInstalledError")

\* a call imports its framework and returns, on an analyzer on which an
\* earlier call for the same name failed with FrameworkNotInstalledError
C2Witness ==
    \E t \in Active :
        /\ th[t].framework_name \in failedLoads
        /\ th[t].probe = "ok"
        /\ Returned(t)

\* C3: with overlapping callers, at most one import succeeds per framework
\* name and every call that has a module for the name has the cached one.
SerializedFirstUse ==
    /\ \A name \in valid_hints : Len(probeLog[name]) <= 1
    /\ \A t \in Active :
          Activated(t) =>
              th[t].framework = loaded_frameworks[th[t].framework_name]

\* C4 (state part): the cache is empty before the first call, its keys are
\* framework names, each entry is the module the first successful import for
\* that name returned, and a call that found its name cached has that entry
\* and does not fail with FrameworkNotInstalledError.
CacheInv ==
    /\ calls = 0 => loaded_frameworks = EmptyDict
    /\ DOMAIN loaded_frameworks \subseteq valid_hints
    /\ \A name \in DOMAIN loaded_frameworks :
          /\ probeLog[name] # <<>>
          /\ loaded_frameworks[name] = probeLog[name][1]
          /\ loaded_frameworks[name] \in Handles
    /\ \A t \in Active :
          th[t].probe = "hit" =>
             /\ th[t].framework = loaded_frameworks[th[t].framework_name]
             /\ ~Raised(t, "FrameworkNotInstalledError")

\* C4 (step part): no step removes or replaces a cache entry, and the cache
\* lookup of a call whose name is cached is a hit whatever the module's
\* state is now.
CacheStep ==
    /\ \A name \in DOMAIN loaded_frameworks :
          /\ name \in DOMAIN loaded_frameworks'
          /\ loaded_frameworks'[name] = loaded_frameworks[name]
    /\ \A t \in Threads :
          (/\ th[t].pc = "load"
           /\ th'[t].pc # "load"
           /\ th[t].framework_name \in DOMAIN loaded_frameworks)
          => th'[t].pc = "invoke" /\ th'[t].probe = "hit"

\* C4: the activation-cache invariant: empty at construction, keys among
\* the four framework names, entries added only by a successful import,
\* never removed, never replaced, and used even when the module can no
\* longer be imported.
ActivationCacheInvariant == [](CacheInv) /\ [][CacheStep]_vars

\* a call returns from a cached module whose package can no longer be
\* imported
C4Witness ==
    \E t \in Active :
        /\ th[t].probe = "hit"
        /\ th[t].modAtCheck # "ok"
        /\ modules[th[t].framework_name] # "ok"
        /\ Returned(t)

ProbeFailureIsNotInstalled ==
    \A t \in Active :
        th[t].probe \in {"missing", "broken"} =>
           /\ Raised(t, "FrameworkNotInstalledError")
           /\ th[t].outcome.framework_name = th[t].framework_name
           /\ th[t].outcome.file_path = th[t].file_path
           /\ th[t].outcome.install =
                  "unified-document-analysis[" \o th[t].framework_name \o "]"
           /\ th[t].invoked = 0

\* C7: every exception that ends analyze or chunk is one of the error
\* classes of the package's own hierarchy.
ClosedErrorTaxonomy ==
    \A t \in Active :
        (th[t].pc = "done" /\ th[t].outcome.kind = "raise") =>
            th[t].outcome.type \in UnifiedAnalysisErrorTypes

\* detect_framework raises for the arguments of the call of t
DetectFails(t) ==
    detect_framework(th[t].file_path, th[t].hint).kind = "raise"

\* C8 (state part): a call whose classification fails has ended with the
\* classifier's own exception, without a cache lookup, an import or a
\* back-end call.
ClassificationErrorState ==
    \A t \in Active :
        DetectFails(t) =>
           /\ th[t].pc = "done"
           /\ th[t].outcome = detect_framework(th[t].file_path, th[t].hint)
           /\ th[t].outcome.type \in {"ValueError", "UnsupportedFileTypeError"}
           /\ th[t].probe = "none"
           /\ th[t].probes = 0
           /\ th[t].invoked = 0
           /\ th[t].backend = Nothing

\* C8 (step part): no step that starts, or happens during, a call whose
\* classification fails changes the cache or performs an import.
ClassificationErrorStep ==
    \A t \in Threads :
        (/\ th'[t].pc # "idle"
         /\ th'[t].op \in {"analyze", "chunk"}
         /\ detect_framework(th'[t].file_path, th'[t].hint).kind = "raise")
        => loaded_frameworks' = loaded_frameworks /\ probeLog' = probeLog

\* C8: a classification error (invalid hint, unsupported file type) reaches
\* the caller of analyze or chunk as raised by the classifier; nothing is
\* imported, no back-end is called and the cache stays as it was.
ClassificationErrorPropagates ==
    [](ClassificationErrorState) /\ [][ClassificationErrorStep]_vars

\* analyze of a file of unsupported type has failed while a framework is in
\* the cache
C8Witness ==
    \E t \in Active :
        /\ Raised(t, "UnsupportedFileTypeError")
        /\ th[t].hint = None
        /\ DOMAIN loaded_frameworks # {}

\* C9: whatever calls have failed before, a finished analyze or chunk call
\* for arguments the classifier accepts, whose framework was importable when
\* the call looked it up and whose import, if it made one, did not fail, and
\* whose back-end operation did not raise, has returned the result the
\* cached module of that framework computed for its operation and file.
UsableAfterErrors ==
    \A t \in Active :
        (/\ th[t].pc = "done"
         /\ ~DetectFails(t)
         /\ th[t].modAtCheck = "ok"
         /\ th[t].probe \notin {"missing", "broken"}
         /\ th[t].backend.kind # "raise")
        => /\ th[t].framework_name \in DOMAIN loaded_frameworks
           /\ th[t].outcome =
                 Return(BackendResult(loaded_frameworks[th[t].framework_name],
                                      th[t].op, th[t].file_path,
                                      th[t].options))

\* a call returns its result on an analyzer whose two earlier calls failed,
\* one of them for want of this very framework
C9Witness ==
    \E t \in Active :
        /\ Returned(t)
        /\ failures >= 2
        /\ th[t].framework_name \in failedLoads

\* C10: a call imports at most once and calls the back-end operation at
\* most once; after a failed import it has ended without calling the
\* back-end, and after the back-end raised it has ended.
NoAutomaticRetry ==
    \A t \in Active :
        /\ th[t].probes <= 1
        /\ th[t].invoked <= 1
        /\ th[t].probe \in {"missing", "broken"} =>
              th[t].pc = "done" /\ th[t].invoked = 0 /\ th[t].probes = 1
        /\ th[t].backend.kind = "raise" =>
              th[t].pc = "done" /\ th[t].invoked = 1

\* the one back-end call of an analyze raised and the call ended in
\* AnalysisError
C10Witness ==
    \E t \in Active :
        /\ Raised(t, "AnalysisError")
        /\ th[t].invoked = 1
        /\ th[t].probes = 1


\* the step in which caller t makes a call of operation op
Calls(t, op) ==
    /\ th[t].pc = "idle"
    /\ th'[t].pc # "idle"
    /\ th'[t].op = op

\* the elements of a sequence
Range(seq) == {seq[i] : i \in DOMAIN seq}

\* C11 (step part): a call of get_available_frameworks leaves the cache as
\* it is, performs no import on behalf of _load_framework, and what it
\* returns is decided by what can be imported now: a name is listed exactly
\* when its module is importable, whether or not the name is in the cache.
AvailableIgnoresCacheStep ==
    \A t \in Threads :
        Calls(t, "get_available_frameworks") =>
           /\ loaded_frameworks' = loaded_frameworks
           /\ probeLog' = probeLog
           /\ th'[t].outcome.kind = "return" =>
                 \A name \in valid_hints :
                     name \in Range(th'[t].outcome.value)
                         <=> modules[name] = "ok"

\* C11: get_available_frameworks neither reads nor writes the activation
\* cache: the cache is unchanged by it and its result for a given
\* availability of the modules is the same on a fresh analyzer and after
\* any activations.
AvailableBackendsIgnoreCache == [][AvailableIgnoresCacheStep]_vars

\* get_available_frameworks has returned a list without a framework that is
\* in the cache, its package having been removed
C11Witness ==
    \E t \in Threads :
        /\ th[t].pc = "done"
        /\ th[t].op = "get_available_frameworks"
        /\ th[t].outcome.kind = "return"
        /\ \E name \in DOMAIN loaded_frameworks :
              /\ modules[name] = "missing"
              /\ name \notin Range(th[t].outcome.value)

\* C12: every call of get_available_frameworks returns the list of exactly
\* the frameworks whose module is importable at that moment, in the order
\* xml, docling, document, data (the empty list when there is none).
AvailableBackendsExact ==
    [][\A t \in Threads :
          Calls(t, "get_available_frameworks") =>
              th'[t].outcome =
                  Return(SelectSeq(frameworks,
                                   LAMBDA name : modules[name] = "ok"))]_vars

\* C13 (step part): a call of detect_framework_for_file, whether it returns
\* or raises, leaves the cache as it is, imports nothing on behalf of
\* _load_framework and calls no back-end; when it returns, the framework is
\* the classifier's and "installed" says whether that framework's module is
\* importable now, cached or not.
DescribeRoutingStep ==
    \A t \in Threads :
        Calls(t, "detect_framework_for_file") =>
           /\ loaded_frameworks' = loaded_frameworks
           /\ probeLog' = probeLog
           /\ th'[t].pc = "done"
           /\ th'[t].invoked = 0
           /\ th'[t].probes = 0
           /\ th'[t].backend = Nothing
           /\ th'[t].outcome.kind = "return" =>
                 /\ Return(th'[t].outcome.value.framework) =
                        detect_framework(th'[t].file_path, th'[t].hint)
                 /\ th'[t].outcome.value.installed =
                        (modules[th'[t].outcome.value.framework] = "ok")

\* C13: detect_framework_for_file is read-only: it never calls a back-end
\* operation and never changes the activation cache, and its "installed"
\* field is the result of a fresh import of the detected framework only.
DescribeRoutingReadOnly == [][DescribeRoutingStep]_vars

\* detect_framework_for_file has reported a cached framework as not
\* installed, its package having been removed
C13Witness ==
    \E t \in Threads :
        /\ th[t].pc = "done"
        /\ th[t].op = "detect_framework_for_file"
        /\ th[t].outcome.kind = "return"
        /\ th[t].outcome.value.framework \in DOMAIN loaded_frameworks
        /\ modules[th[t].outcome.value.framework] = "missing"
        /\ ~th[t].outcome.value.installed

\* ------------------------------------------------------------------------
\* properties of the router called on its own (RouterSpec)
\* ------------------------------------------------------------------------
\* the caller of the router, and which of its three results are there
query == th[MainThread]

Detected == query.pc = "router" /\ query.detected # Nothing

Scored == query.pc = "router" /\ query.confidence # Nothing

AmbiguityKnown == query.pc = "router" /\ query.ambiguous # Nothing

\* the four backend identities
Identities == {"xml", "docling", "document", "data"}

\* C14: a supplied hint that is one of the four backend identities is the
\* result of classification, whatever the suffix of the file is
ValidHintOverridesSuffix ==
    (Detected /\ query.hint \in Identities) =>
        query.detected = Return(query.hint)

\* a hint that names another backend than the one the suffix belongs to
C14Witness ==
    /\ Detected
    /\ query.file_path = "R.PDF"
    /\ query.hint = "data"
    /\ query.detected = Return("data")

\* C15: a supplied hint that is not one of the four backend identities, the
\* empty string included, makes classification fail with an invalid-argument
\* failure
InvalidHintFails ==
    (Detected /\ query.hint # None /\ query.hint \notin Identities) =>
        /\ query.detected.kind = "raise"
        /\ query.detected.type = "ValueError"

\* the identity that owns a suffix that is in one table only
Owner(extension) ==
    CASE extension \in XML_EXTENSIONS     -> "xml"
      [] extension \in DOCLING_EXTENSIONS -> "docling"
      [] extension \in DATA_EXTENSIONS    -> "data"
      [] OTHER                            -> "document"

Unambiguous ==
    (XML_EXTENSIONS \cup DOCLING_EXTENSIONS \cup DATA_EXTENSIONS
        \cup DOCUMENT_EXTENSIONS) \ {".json", ".yaml", ".yml"}

\* C16: without a hint, a file whose normalized suffix is unambiguous is
\* classified to the identity that owns the suffix, and the confidence of
\* that identity for the file is 1.0
UnambiguousSuffixRouted ==
    LET extension == Extension(query.file_path)
    IN  (query.pc = "router" /\ query.hint = None /\ extension \in Unambiguous) =>
           /\ Detected => query.detected = Return(Owner(extension))
           /\ (Scored /\ query.framework_name = Owner(extension)) =>
                  query.confidence = Return(10)

\* a suffix of the data table, classified and scored
C16Witness ==
    /\ Detected /\ Scored
    /\ query.hint = None
    /\ query.file_path = "f.csv"
    /\ query.framework_name = "data"
    /\ query.detected = Return("data")
    /\ query.confidence = Return(10)

\* C17: without a hint, .json, .yaml and .yml are classified to the first
\* alternative of the suffix's list, the ambiguity query answers true with
\* the whole list, the confidence of that identity is 0.7, and
\* classification does not fail
AmbiguousSuffixRouted ==
    LET extension == Extension(query.file_path)
    IN  (query.pc = "router" /\ extension \in {".json", ".yaml", ".yml"}) =>
           LET alternatives == IF extension = ".json"
                               THEN <<"document", "data">>
                               ELSE <<"document", "xml">>
           IN  /\ (Detected /\ query.hint = None) =>
                      query.detected = Return(alternatives[1])
               /\ AmbiguityKnown =>
                      query.ambiguous = Return(<<TRUE, alternatives>>)
               /\ (Scored /\ query.framework_name = alternatives[1]) =>
                      query.confidence = Return(7)

\* an upper-case .JSON file, classified, scored and asked about
C17Witness ==
    /\ Detected /\ Scored /\ AmbiguityKnown
    /\ query.file_path = "Q.JSON"
    /\ query.hint = None
    /\ query.framework_name = "document"
    /\ query.detected = Return("document")
    /\ query.confidence = Return(7)
    /\ query.ambiguous = Return(<<TRUE, <<"document", "data">> >>)

\* C18: without a hint, a file whose normalized suffix is empty is
\* classified to the general-text identity, with confidence 0.5
EmptySuffixFallsBack ==
    (query.pc = "router" /\ query.hint = None
        /\ Extension(query.file_path) = "") =>
           /\ Detected => query.detected = Return("document")
           /\ (Scored /\ query.framework_name = "document") =>
                  query.confidence = Return(5)

\* a name that starts with a dot has no suffix
C18Witness ==
    /\ Detected /\ Scored
    /\ query.file_path = ".gitignore"
    /\ query.hint = None
    /\ query.framework_name = "document"
    /\ query.detected = Return("document")
    /\ query.confidence = Return(5)

\* C19: without a hint, a non-empty normalized suffix that no table names
\* makes classification fail with the unsupported-file-type error, which
\* carries the file path and the normalized suffix and lists suffixes of
\* each backend category
UnknownSuffixRefused ==
    LET extension == Extension(query.file_path)
    IN  (Detected /\ query.hint = None /\ extension # ""
            /\ extension \notin AllExtensions) =>
           /\ query.detected.kind = "raise"
           /\ query.detected.type = "UnsupportedFileTypeError"
           /\ query.detected.file_path = query.file_path
           /\ query.detected.extension = extension
           /\ \A table \in {XML_EXTENSIONS, DOCLING_EXTENSIONS,
                            DATA_EXTENSIONS, DOCUMENT_EXTENSIONS} :
                  query.detected.listed \cap table # {}

\* an upper-case unknown suffix is reported in lower case
C19Witness ==
    /\ Detected
    /\ query.file_path = "X.QQQ"
    /\ query.hint = None
    /\ query.detected.kind = "raise"
    /\ query.detected.type = "UnsupportedFileTypeError"
    /\ query.detected.file_path = "X.QQQ"
    /\ query.detected.extension = ".qqq"

\* C20: the confidence of an identity for a file is 1.0 when the suffix is
\* unambiguous and the identity owns it, 0.7 when the suffix is ambiguous
\* and the identity is its default, 0.5 when the suffix is empty and the
\* identity is the general-text one, and 0.3 in every other case
ConfidenceTable ==
    LET extension == Extension(query.file_path)
        framework == query.framework_name
    IN  Scored =>
           query.confidence =
              Return(IF extension \in Unambiguous /\ framework = Owner(extension)
                         THEN 10
                     ELSE IF extension \in {".json", ".yaml", ".yml"}
                             /\ framework = "document"
                         THEN 7
                     ELSE IF extension = "" /\ framework = "document"
                         THEN 5
                     ELSE 3)

Described == query.pc = "router" /\ query.described # Nothing

\* the ambiguous table as the specification states it
Alternatives(extension) ==
    CASE extension = ".json"            -> <<"document", "data">>
      [] extension \in {".yaml", ".yml"} -> <<"document", "xml">>
      [] OTHER                          -> <<>>

\* C21: the ambiguity query is a function of the normalized suffix alone:
\* (true, the whole list) for .json, .yaml and .yml and (false, empty list)
\* for every other suffix; and the ambiguity fields of a routing
\* description are those same values whatever hint the description was
\* asked with
AmbiguityBySuffixOnly ==
    LET extension == Extension(query.file_path)
        expected  == <<extension \in {".json", ".yaml", ".yml"},
                       Alternatives(extension)>>
    IN  /\ AmbiguityKnown => query.ambiguous = Return(expected)
        /\ (Described /\ query.described.kind = "return") =>
               /\ query.described.value.is_ambiguous = expected[1]
               /\ query.described.value.alternatives = expected[2]

\* an ambiguous file described with the hint of the other alternative
C21Witness ==
    /\ AmbiguityKnown /\ Described
    /\ query.file_path = "f.yaml"
    /\ query.hint = "xml"
    /\ query.ambiguous = Return(<<TRUE, <<"document", "xml">> >>)
    /\ query.described.kind = "return"
    /\ query.described.value.framework = "xml"
    /\ query.described.value.is_ambiguous = TRUE
    /\ query.described.value.alternatives = <<"document", "xml">>

\* the rule tables that name a suffix: the four per-identity tables and the
\* ambiguous table
RulesNaming(extension) ==
    {rule \in {"xml", "docling", "data", "document", "ambiguous"} :
        extension \in (CASE rule = "xml"      -> XML_EXTENSIONS
                         [] rule = "docling"  -> DOCLING_EXTENSIONS
                         [] rule = "data"     -> DATA_EXTENSIONS
                         [] rule = "document" -> DOCUMENT_EXTENSIONS
                         [] OTHER             -> DOMAIN AMBIGUOUS_EXTENSIONS)}

\* C22: every suffix is named by at most one rule table: the four
\* per-identity tables are pairwise disjoint, and none of them names a
\* suffix of the ambiguous table
SuffixInAtMostOneRule ==
    query.pc = "router" =>
        Cardinality(RulesNaming(Extension(query.file_path))) <= 1

Indexed == query.pc = "router" /\ query.supported # Nothing

\* is the suffix listed under the identity exactly when classification of
\* the file without a hint gave that identity
ListedIffDetected(extension, identity) ==
    (identity \in DOMAIN query.supported.value
        /\ extension \in query.supported.value[identity])
            <=> query.detected = Return(identity)

\* C23 as stated: the index of supported suffixes has the four identities
\* as keys when no filter is given and the filter as its one key otherwise,
\* and it lists a suffix, the empty one included, under an identity exactly
\* when a file with that suffix and no hint is classified to the identity
ReverseIndexOfRouting ==
    (Indexed /\ Detected /\ query.hint = None) =>
        LET extension == Extension(query.file_path)
            filter    == query.supported.framework
        IN  /\ filter = None =>
                  /\ DOMAIN query.supported.value = Identities
                  /\ \A identity \in Identities :
                         ListedIffDetected(extension, identity)
            /\ filter \in Identities =>
                  /\ DOMAIN query.supported.value = {filter}
                  /\ ListedIffDetected(extension, filter)

\* C23 amended: the same, for the files that have a non-empty suffix; the
\* empty suffix is classified to the general-text identity and is listed
\* under no identity
ReverseIndexOfSuffixRules ==
    (Indexed /\ Detected /\ query.hint = None
        /\ Extension(query.file_path) # "") =>
        LET extension == Extension(query.file_path)
            filter    == query.supported.framework
        IN  /\ filter = None =>
                  /\ DOMAIN query.supported.value = Identities
                  /\ \A identity \in Identities :
                         ListedIffDetected(extension, identity)
            /\ filter \in Identities =>
                  /\ DOMAIN query.supported.value = {filter}
                  /\ ListedIffDetected(extension, filter)

\* a suffix of two tables: listed under the identity it is classified to
C23Witness ==
    /\ Indexed /\ Detected
    /\ query.file_path = "Q.JSON"
    /\ query.hint = None
    /\ query.supported.framework = "document"
    /\ DOMAIN query.supported.value = {"document"}
    /\ ".json" \in query.supported.value["document"]
    /\ query.detected = Return("document")

\* two file paths whose final suffixes are equal when case is ignored
SameSuffix(file_path, other) ==
    lower(PathSuffix(file_path)) = lower(PathSuffix(other))

\* other paths to compare a path with: suffixes in another case, names
\* with more dots, names in a directory, names without a suffix
SuffixPeers ==
    {"FILE.PDF", "report.final.pdf", "x.pdf", "DATA.Json", "b.Yml",
     "archive.tar.GZ", "Y.Qqq", "t.CSV", "m.Xml", "README", "dir.d/NOTES"}

\* the same identity, or the same failure about the same suffix
SameOutcome(a, b) ==
    IF a.kind = "raise" /\ a.type = "UnsupportedFileTypeError"
    THEN b.kind = "raise" /\ b.type = a.type /\ b.extension = a.extension
    ELSE a = b

\* C24: classification uses a file path only through its final suffix in
\* lower case: every other path with the same final suffix, case ignored,
\* gets the same outcome of classification with the same hint, the same
\* confidence for the same identity and the same answer about ambiguity
SuffixDeterminesRouting ==
    (Detected \/ Scored \/ AmbiguityKnown) =>
        \A other \in SuffixPeers :
            SameSuffix(query.file_path, other) =>
               /\ Detected =>
                      SameOutcome(query.detected,
                                  detect_framework(other, query.hint))
               /\ Scored =>
                      query.confidence =
                          Return(get_confidence(other, query.framework_name))
               /\ AmbiguityKnown =>
                      query.ambiguous = Return(is_ambiguous(other))

\* an upper-case suffix, and a lower-case name with two dots
C24Witness ==
    /\ Detected /\ Scored /\ AmbiguityKnown
    /\ query.file_path = "R.PDF"
    /\ query.hint = None
    /\ query.framework_name = "docling"
    /\ SameSuffix("R.PDF", "report.final.pdf")
    /\ query.detected = Return("docling")
    /\ detect_framework("report.final.pdf", None) = Return("docling")
    /\ query.confidence = Return(10)
    /\ get_confidence("report.final.pdf", "docling") = 10
    /\ query.ambiguous = Return(<<FALSE, <<>> >>)

\* ------------------------------------------------------------------------
\* properties of the orchestrator, continued (Spec)
\* ------------------------------------------------------------------------
\* the caller is about to call, or has called, the back-end operation
AtBackend(t) ==
    /\ t \in Active
    /\ th[t].pc = "invoke" \/ th[t].invoked > 0

\* C25: within one call of analyze or chunk, the back-end operation is
\* called only after classification has returned an identity and activation
\* has given a module; the module called is the one the cache holds for
\* exactly that identity; the operation is given the caller's file path and
\* options as they were passed; and what it returns is what the call returns
CallOrdering ==
    \A t \in Threads :
        AtBackend(t) =>
            /\ detect_framework(th[t].file_path, th[t].hint)
                   = Return(th[t].framework_name)
            /\ th[t].probe \in {"hit", "ok"}
            /\ th[t].framework \in Handles
            /\ th[t].framework_name \in DOMAIN loaded_frameworks
            /\ th[t].framework = loaded_frameworks[th[t].framework_name]
            /\ th[t].invoked <= 1
            /\ (th[t].invoked = 1 /\ th[t].backend.kind = "return") =>
                   /\ th[t].backend.value =
                          [by        |-> th[t].framework,
                           op        |-> th[t].op,
                           file_path |-> th[t].file_path,
                           options   |-> th[t].options]
                   /\ th[t].outcome = th[t].backend

\* a call with options that was served by the cached module of its
\* identity, while the cache also holds another identity's module, which is
\* a different one
C25Witness ==
    \E t \in Threads :
        /\ th[t].pc = "done"
        /\ th[t].op = "chunk"
        /\ th[t].options # NoOptions
        /\ th[t].probe = "hit"
        /\ th[t].invoked = 1
        /\ th[t].outcome.kind = "return"
        /\ th[t].outcome.value.options = th[t].options
        /\ \E other \in DOMAIN loaded_frameworks :
               /\ other # th[t].framework_name
               /\ loaded_frameworks[other] # th[t].framework

\* ------------------------------------------------------------------------
\* properties of the module-level functions (ModuleSpec)
\* ------------------------------------------------------------------------
\* at most one UnifiedAnalyzer has been made, it exists once a call has been
\* made, and what its cache holds for a name is the module of the one
\* import that succeeded for the name
SingletonInv ==
    /\ _analyzer \in {NoAnalyzer, 1}
    /\ calls > 0 => _analyzer = 1
    /\ \A name \in valid_hints :
          probeLog[name] # <<>> =>
             /\ Len(probeLog[name]) = 1
             /\ name \in DOMAIN loaded_frameworks
             /\ loaded_frameworks[name] = probeLog[name][1]

\* a call of a module-level function uses the instance the calls before it
\* used; and an analyze or chunk for a name that an earlier call has
\* activated gets the cached module, without an import
SingletonStep ==
    \A t \in Threads :
        /\ (th[t].pc = "idle" /\ th'[t].pc # "idle") =>
               /\ _analyzer' = 1
               /\ _analyzer # NoAnalyzer => _analyzer' = _analyzer
        /\ (/\ th[t].pc = "load"
            /\ th'[t].pc # "load"
            /\ probeLog[th[t].framework_name] # <<>>) =>
               /\ th'[t].pc = "invoke"
               /\ th'[t].probe = "hit"
               /\ th'[t].probes = 0
               /\ th'[t].framework = probeLog[th[t].framework_name][1]
               /\ probeLog' = probeLog

\* C26: over any sequence of calls of the module-level functions,
\* _get_analyzer makes at most one UnifiedAnalyzer and every call uses that
\* instance, so that a back end activated by one module-level analyze is
\* served from the cache, without a new import, to a later module-level
\* analyze or chunk for the same identity
ModuleSingleton == [](SingletonInv) /\ [][SingletonStep]_vars

\* the third module-level call, a chunk, has returned after a cache hit
C26Witness ==
    \E t \in Threads :
        /\ _analyzer = 1
        /\ calls >= 3
        /\ th[t].pc = "done"
        /\ th[t].op = "chunk"
        /\ th[t].probe = "hit"
        /\ th[t].probes = 0
        /\ th[t].outcome.kind = "return"
        /\ probeLog[th[t].framework_name] = <<th[t].framework>>

=============================================================================
